---- MODULE Spec2Model ----
(***************************************************************************)
(* Vector indexing / retrieval pipeline of knowledgehub:                   *)
(*   VectorIndexing.run, VectorRetrieval.run   (indices/vectorindex.py)    *)
(*   IndexVectorStoreFromDocumentPipeline      (pipelines/indexing.py)     *)
(*   CohereReranking.run                       (indices/rankings/cohere.py)*)
(* The two stores, the embedding model and the Cohere service are          *)
(* collaborators reached through their interfaces; every call a pipeline   *)
(* makes to one of them is recorded in `trace`.                            *)
(***************************************************************************)
EXTENDS Integers, Sequences, FiniteSets, TLC

\* ------------------------------------------------------------------ bounds
NumIds == 2          \* caller-assigned Document ids 1..NumIds
MaxUuid == 1         \* ids uuid4 can draw: NumIds+1 .. NumIds+MaxUuid
MaxBatch == 2        \* longest input list of an index call
MaxTopK == 2         \* largest top_k of a retrieve call
MaxRerankers == 2    \* longest configured reranker list

CallerIds == 1..NumIds
Uuids == (NumIds + 1)..(NumIds + MaxUuid)
\* The texts of the stub embedding: "cat" -> [1,0], "dog" -> [0,1].
Texts == {"cat", "dog"}

\* --------------------------------------------------------------- documents
\* Document(text, id_): the caller's documents; document i carries one text.
TextOf(i) == IF i % 2 = 1 THEN "cat" ELSE "dog"
Document(i, t) == [id_ |-> i, text |-> t]
CallerDocuments == {Document(i, TextOf(i)) : i \in CallerIds}

\* The items an index call can be handed: a str, a Document, anything else.
StrItem(t) == [kind |-> "str", text |-> t, id_ |-> 0]
DocItem(d) == [kind |-> "Document", text |-> d.text, id_ |-> d.id_]
OtherItem == [kind |-> "other", text |-> "", id_ |-> 0]
Items == {StrItem(t) : t \in Texts} \cup {DocItem(d) : d \in CallerDocuments}
            \cup {OtherItem}

SeqsUpTo(S, n) == UNION {[1..k -> S] : k \in 0..n}

Range(s) == {s[i] : i \in DOMAIN s}

VARIABLES
    has_doc_store,  \* the pipelines' doc_store field is set (not None)
    vector_store,   \* set of [id_, embedding]: the vector store's records
    doc_store,      \* set of Documents [id_, text]: the document store's records
    op,             \* the pipeline call that just ended, "idle" between calls
    args,           \* its arguments and the pipeline fields it read
    status,         \* "ok" when it returned, else the exception it raised
    result,         \* the value it returned
    trace,          \* the capability calls it made, in order
    disk,           \* set of [name, content]: the files under the save path
    app             \* the BaseApp: its page tree, _events and progress of make

pipeline == <<has_doc_store, vector_store, doc_store, op, args, status, result, trace, disk>>

vars == <<has_doc_store, vector_store, doc_store, op, args, status, result, trace, disk, app>>

\* ------------------------------------------------ collaborators (interfaces)
\* embed(sequence) -> one embedding per input, in input order; the stub
\* embedding capability.
EmbedText(t) == IF t = "cat" THEN <<1, 0>> ELSE <<0, 1>>
Embedding(docs) == [i \in DOMAIN docs |-> EmbedText(docs[i].text)]

RECURSIVE DotUpTo(_, _, _)
DotUpTo(a, b, k) == IF k = 0 THEN 0 ELSE a[k] * b[k] + DotUpTo(a, b, k - 1)
Similarity(a, b) == DotUpTo(a, b, Len(a))

Min(a, b) == IF a < b THEN a ELSE b

\* vector_store.add(embeddings, ids): one record per id, a later one replacing
\* an earlier one of the same id.
VectorStoreAdd(store, embeddings, ids) ==
    LET n == Min(Len(embeddings), Len(ids))
        last(i) == \A j \in (i + 1)..n : ids[j] # ids[i]
    IN  {r \in store : \A i \in 1..n : r.id_ # ids[i]}
          \cup {[id_ |-> ids[i], embedding |-> embeddings[i]] : i \in {j \in 1..n : last(j)}}

\* doc_store.add(docs): one record per id.
DocStoreAdd(store, docs) ==
    LET n == Len(docs)
        last(i) == \A j \in (i + 1)..n : docs[j].id_ # docs[i].id_
    IN  {r \in store : \A i \in 1..n : r.id_ # docs[i].id_}
          \cup {docs[i] : i \in {j \in 1..n : last(j)}}

StoreIds(store) == {r.id_ : r \in store}

\* ------------------------------------------------------ VectorIndexing.run
\* `text` is [list, items]: a list, or one item that run wraps into a list.
IndexInputs ==
    {[list |-> TRUE, items |-> s] : s \in SeqsUpTo(Items, MaxBatch)}
      \cup {[list |-> FALSE, items |-> <<x>>] : x \in Items}

\* HasInvalidItem gone wrong: only the first item is type-checked (as is_document
\* of pipelines/indexing.py does).
HasInvalidItemFirstOnly(items) ==
    Len(items) > 0 /\ items[1].kind \notin {"str", "Document"}

\* The for loop raises at the first item that is neither str nor Document.
HasInvalidItem(items) == \E i \in DOMAIN items : items[i].kind \notin {"str", "Document"}

\* uuid4 for the str items: fresh ids, distinct from each other and from
\* every id in use.
StrPositions(items) == {i \in DOMAIN items : items[i].kind = "str"}
FreshUuids == Uuids \ (StoreIds(vector_store) \cup StoreIds(doc_store))
UuidDraws(items) ==
    {u \in [StrPositions(items) -> FreshUuids] :
        \A i, j \in StrPositions(items) : i # j => u[i] # u[j]}

\* input_: str -> Document(text=item, id_=uuid4()), Document -> itself.
ToDocuments(items, uuid) ==
    [i \in DOMAIN items |->
        IF items[i].kind = "str"
        THEN Document(uuid[i], items[i].text)
        ELSE Document(items[i].id_, items[i].text)]

\* IdsOf gone wrong: the ids are taken in reverse order.
IdsOfReversed(input_) == [i \in DOMAIN input_ |-> input_[Len(input_) + 1 - i].id_]

\* ids=[t.id_ for t in input_]
IdsOf(input_) == [i \in DOMAIN input_ |-> input_[i].id_]

EmbeddingCall(docs) == [call |-> "embedding", docs |-> docs]
VectorAddCall(embeddings, ids) ==
    [call |-> "vector_store.add", embeddings |-> embeddings, ids |-> ids]
DocAddCall(docs) == [call |-> "doc_store.add", docs |-> docs]

\* DocStoreIsSet gone wrong: the document store is never written.
DocStoreNeverWritten == FALSE

\* if self.doc_store:
DocStoreIsSet == has_doc_store

IndexFaults == {"none", "vector_store", "doc_store"}

\* embedding -> vector_store.add -> doc_store.add (when configured), shared by
\* VectorIndexing.run and run_batch_document.  `fault` names the capability
\* that raises during this call, if any.
EmbedAndStore(input_, fault) ==
    LET embeddings == Embedding(input_)
        ids == IdsOf(input_)
    IN  IF fault = "vector_store"
        THEN /\ trace' = <<EmbeddingCall(input_), VectorAddCall(embeddings, ids)>>
             /\ status' = "StoreError"
             /\ UNCHANGED <<vector_store, doc_store>>
        ELSE /\ vector_store' = VectorStoreAdd(vector_store, embeddings, ids)
             /\ IF ~DocStoreIsSet
                THEN /\ trace' = <<EmbeddingCall(input_), VectorAddCall(embeddings, ids)>>
                     /\ status' = "ok"
                     /\ UNCHANGED doc_store
                ELSE /\ trace' = <<EmbeddingCall(input_), VectorAddCall(embeddings, ids),
                                   DocAddCall(input_)>>
                     /\ IF fault = "doc_store"
                        THEN /\ status' = "StoreError"
                             /\ UNCHANGED doc_store
                        ELSE /\ status' = "ok"
                             /\ doc_store' = DocStoreAdd(doc_store, input_)

FaultApplies(fault) == fault = "doc_store" => has_doc_store

VectorIndexingRun(text, fault) ==
    /\ op' = "VectorIndexing.run"
    /\ result' = <<>>
    /\ IF HasInvalidItem(text.items)
       THEN /\ fault = "none"
            /\ args' = [text |-> text, fault |-> fault,
                        input_ |-> <<>>]
            /\ status' = "ValueError"
            /\ trace' = <<>>
            /\ UNCHANGED <<has_doc_store, vector_store, doc_store>>
       ELSE \E uuid \in UuidDraws(text.items) :
            LET input_ == ToDocuments(text.items, uuid)
            IN  /\ args' = [text |-> text, fault |-> fault,
                            input_ |-> input_]
                /\ EmbedAndStore(input_, fault)
                /\ UNCHANGED has_doc_store

\* --------------------- IndexVectorStoreFromDocumentPipeline.run_batch_document
BatchInputs == SeqsUpTo(CallerDocuments, MaxBatch)

RunBatchDocument(text, fault) ==
    /\ op' = "run_batch_document"
    /\ result' = <<>>
    /\ args' = [text |-> [list |-> TRUE, items |-> [i \in DOMAIN text |-> DocItem(text[i])]],
                fault |-> fault, input_ |-> text]
    /\ EmbedAndStore(text, fault)
    /\ UNCHANGED has_doc_store

\* ----------------------------------------------------- VectorRetrieval.run
\* top_k: Optional[int] -- <<>> is None, <<k>> is the int k.
NoneValue == <<>>
TopKArgs == {NoneValue} \cup {<<k>> : k \in 0..MaxTopK}
\* VectorRetrieval.top_k: int = 1
DefaultTopK == 1

\* if top_k is None: top_k = self.top_k
EffectiveTopK(top_k, self_top_k) == IF top_k = NoneValue THEN self_top_k ELSE top_k[1]

\* vector_store.query(embedding, top_k) -> (_, scores, ids): the top_k records
\* nearest to `embedding`, best first, equal scores in id order.
RECURSIVE NearestFirst(_, _)
NearestFirst(store, emb) ==
    IF store = {} THEN <<>>
    ELSE LET best == CHOOSE r \in store : \A o \in store :
                        \/ Similarity(r.embedding, emb) > Similarity(o.embedding, emb)
                        \/ /\ Similarity(r.embedding, emb) = Similarity(o.embedding, emb)
                           /\ r.id_ <= o.id_
         IN  <<best>> \o NearestFirst(store \ {best}, emb)

VectorStoreQuery(store, emb, top_k) ==
    LET hits == NearestFirst(store, emb)
        n == IF top_k < 0 THEN 0 ELSE Min(top_k, Len(hits))
    IN  [scores |-> [i \in 1..n |-> Similarity(hits[i].embedding, emb)],
         ids |-> [i \in 1..n |-> hits[i].id_]]

\* doc_store.get(ids): the records of `ids` in request order.  A store either
\* raises on an id it does not hold or leaves it out (`on_missing`).
DocStoreHas(store, ids) == \A i \in DOMAIN ids : ids[i] \in StoreIds(store)
DocStoreGet(store, ids) ==
    LET held(i) == i \in StoreIds(store)
        found == SelectSeq(ids, held)
    IN  [k \in DOMAIN found |-> CHOOSE d \in store : d.id_ = found[k]]

\* RetrievedDocument(**doc.to_dict(), score=score); metadata["relevance_score"]
\* is unset (<<>>) until a reranker sets it.
RetrievedDocument(doc, score) ==
    [id_ |-> doc.id_, text |-> doc.text, score |-> score, relevance_score |-> <<>>]

\* [RetrievedDocument(...) for doc, score in zip(docs, scores)]
ZipResult(docs, scores) ==
    [i \in 1..Min(Len(docs), Len(scores)) |-> RetrievedDocument(docs[i], scores[i])]

\* ---------------------------------------------------- CohereReranking.run
\* Reranker instance r: model_name r, top_k r (the class default top_k is 1).
Rerankers == {1, 2}
RerankerTopK(r) == r

\* The Cohere service: relevance of a content for a query under a model; one
\* model prefers the content nearest the query, the other prefers "dog".
CohereRelevance(model, query, content) ==
    IF model % 2 = 1
    THEN 1 + Similarity(EmbedText(content), EmbedText(query))
    ELSE IF content = "dog" THEN 2 ELSE 1

\* cohere_client.rerank(model, query, documents, top_n): the top_n documents,
\* most relevant first, as (index, relevance_score).
RECURSIVE MostRelevantFirst(_, _, _, _)
MostRelevantFirst(model, query, contents, left) ==
    IF left = {} THEN <<>>
    ELSE LET rel(i) == CohereRelevance(model, query, contents[i])
             best == CHOOSE i \in left : \A j \in left :
                        rel(i) > rel(j) \/ (rel(i) = rel(j) /\ i <= j)
         IN  <<[index |-> best, relevance_score |-> rel(best)]>>
               \o MostRelevantFirst(model, query, contents, left \ {best})

CohereRerank(model, query, contents, top_n) ==
    LET all == MostRelevantFirst(model, query, contents, DOMAIN contents)
    IN  SubSeq(all, 1, Min(top_n, Len(all)))

ClientCall == [call |-> "cohere.Client"]
RerankCall(model, query, contents, top_n) ==
    [call |-> "cohere.rerank", model |-> model, query |-> query,
     documents |-> contents, top_n |-> top_n]

\* CompressedDocs gone wrong: the k-th result is paired with the k-th input
\* document instead of documents[r.index].
CompressedDocsByPosition(documents, results) ==
    [k \in DOMAIN results |->
        [documents[k] EXCEPT !.relevance_score = <<results[k].relevance_score>>]]

\* compressed_docs: documents[r.index] with metadata["relevance_score"] set.
CompressedDocs(documents, results) ==
    [k \in DOMAIN results |->
        [documents[results[k].index] EXCEPT
            !.relevance_score = <<results[k].relevance_score>>]]

\* run(documents, query) of instance r: [out |-> returned list, calls |-> calls
\* made to the cohere library].  The client is built before the empty test.
CohereRerankingRun(r, documents, query) ==
    LET _docs == [i \in DOMAIN documents |-> documents[i].text]
        results == CohereRerank(r, query, _docs, RerankerTopK(r))
    IN  IF Len(documents) = 0
        THEN [out |-> <<>>, calls |-> <<ClientCall>>]
        ELSE [out |-> CompressedDocs(documents, results),
              calls |-> <<ClientCall, RerankCall(r, query, _docs, RerankerTopK(r))>>]

RerankerCall(r, documents, query, returned) ==
    [call |-> "reranker", reranker |-> r, documents |-> documents, query |-> query,
     returned |-> returned]

\* for reranker in self.rerankers: result = reranker(documents=result, query=text)
\* from the k-th configured reranker on; `done` holds the calls made so far.
RECURSIVE ApplyRerankers(_, _, _, _, _)
\* RerankStep gone wrong: `result` is not reassigned, every reranker gets the
\* initial list.
RerankStepKeepsInput(rerankers, k, current, text, done, one) ==
    ApplyRerankers(rerankers, k + 1, current, text,
                   done \o <<RerankerCall(rerankers[k], current, text, one.out)>>
                        \o one.calls)
RerankStep(rerankers, k, current, text, done, one) ==
    ApplyRerankers(rerankers, k + 1, one.out, text,
                   done \o <<RerankerCall(rerankers[k], current, text, one.out)>>
                        \o one.calls)
ApplyRerankers(rerankers, k, current, text, done) ==
    IF k > Len(rerankers) THEN [out |-> current, calls |-> done]
    ELSE RerankStep(rerankers, k, current, text, done,
                    CohereRerankingRun(rerankers[k], current, text))

QueryEmbeddingCall(text) == [call |-> "embedding", docs |-> <<text>>]
VectorQueryCall(emb, top_k, returned) ==
    [call |-> "vector_store.query", embedding |-> emb, top_k |-> top_k, returned |-> returned]
DocGetCall(ids, returned) == [call |-> "doc_store.get", ids |-> ids, returned |-> returned]

RerankerLists == SeqsUpTo(Rerankers, MaxRerankers)
OnMissing == {"raise", "skip"}

\* DocStoreIsNone gone wrong: the test is missing.
DocStoreNeverTested == FALSE

\* if self.doc_store is None: raise ValueError
DocStoreIsNone == ~has_doc_store

\* `hits` is what vector_store.query returned for the effective top_k.
VectorRetrievalRun(text, top_k, self_top_k, rerankers, on_missing, hits) ==
    LET k == EffectiveTopK(top_k, self_top_k)
        emb == EmbedText(text)
        before == <<QueryEmbeddingCall(text), VectorQueryCall(emb, k, hits)>>
    IN  /\ op' = "VectorRetrieval.run"
        /\ args' = [text |-> text, top_k |-> top_k, self_top_k |-> self_top_k,
                    rerankers |-> rerankers, on_missing |-> on_missing]
        /\ UNCHANGED <<has_doc_store, vector_store, doc_store>>
        /\ IF DocStoreIsNone
           THEN /\ status' = "ValueError"
                /\ result' = <<>>
                /\ trace' = <<>>
           ELSE IF on_missing = "raise" /\ ~DocStoreHas(doc_store, hits.ids)
           THEN /\ status' = "StoreError"
                /\ result' = <<>>
                /\ trace' = before \o <<DocGetCall(hits.ids, <<>>)>>
           ELSE \E docs \in {DocStoreGet(doc_store, hits.ids)} :
                \E reranked \in {ApplyRerankers(rerankers, 1, ZipResult(docs, hits.scores),
                                                text, <<>>)} :
                    /\ status' = "ok"
                    /\ result' = reranked.out
                    /\ trace' = before \o <<DocGetCall(hits.ids, docs)>> \o reranked.calls

\* ------------------------------------------ CohereReranking.run, called alone
RerankInputs == SeqsUpTo({RetrievedDocument(d, 0) : d \in CallerDocuments}, MaxBatch)

RerankRun(r, documents, query) ==
    \E run \in {CohereRerankingRun(r, documents, query)} :
        /\ op' = "CohereReranking.run"
        /\ args' = [reranker |-> r, documents |-> documents, query |-> query]
        /\ status' = "ok"
        /\ result' = run.out
        /\ trace' = run.calls
        /\ UNCHANGED <<has_doc_store, vector_store, doc_store>>

\* ------------------- IndexVectorStoreFromDocumentPipeline.save and .load
VECTOR_STORE_FNAME == "vectorstore"
DOC_STORE_FNAME == "docstore"

\* store.save(path / name): the file holds the store's records.
WriteFile(files, name, content) ==
    {f \in files : f.name # name} \cup {[name |-> name, content |-> content]}
HasFile(files, name) == \E f \in files : f.name = name
\* store.load(path / name)
ReadFile(files, name) == (CHOOSE f \in files : f.name = name).content

SaveCall(store, name) == [call |-> store \o ".save", path |-> name]
LoadCall(store, name) == [call |-> store \o ".load", path |-> name]

\* save: self.vector_store.save(path / vectorstore_fname), then
\* self.doc_store.save(path / docstore_fname), which has no doc_store to call
\* when none is set.
PipelineSave ==
    /\ op' = "save"
    /\ args' = [vectorstore_fname |-> VECTOR_STORE_FNAME, docstore_fname |-> DOC_STORE_FNAME]
    /\ result' = <<>>
    /\ UNCHANGED <<has_doc_store, vector_store, doc_store>>
    /\ IF has_doc_store
       THEN /\ disk' = WriteFile(WriteFile(disk, VECTOR_STORE_FNAME, vector_store),
                                 DOC_STORE_FNAME, doc_store)
            /\ trace' = <<SaveCall("vector_store", VECTOR_STORE_FNAME),
                          SaveCall("doc_store", DOC_STORE_FNAME)>>
            /\ status' = "ok"
       ELSE /\ disk' = WriteFile(disk, VECTOR_STORE_FNAME, vector_store)
            /\ trace' = <<SaveCall("vector_store", VECTOR_STORE_FNAME)>>
            /\ status' = "AttributeError"

\* load: self.vector_store.load(path / vectorstore_fname), then
\* self.doc_store.load(path / docstore_fname); a store raises on a file that
\* is not there.
PipelineLoad ==
    /\ op' = "load"
    /\ args' = [vectorstore_fname |-> VECTOR_STORE_FNAME, docstore_fname |-> DOC_STORE_FNAME]
    /\ result' = <<>>
    /\ UNCHANGED <<has_doc_store, disk>>
    /\ IF ~HasFile(disk, VECTOR_STORE_FNAME)
       THEN /\ status' = "StoreError"
            /\ trace' = <<LoadCall("vector_store", VECTOR_STORE_FNAME)>>
            /\ UNCHANGED <<vector_store, doc_store>>
       ELSE /\ vector_store' = ReadFile(disk, VECTOR_STORE_FNAME)
            /\ IF ~has_doc_store
               THEN /\ status' = "AttributeError"
                    /\ trace' = <<LoadCall("vector_store", VECTOR_STORE_FNAME)>>
                    /\ UNCHANGED doc_store
               ELSE /\ trace' = <<LoadCall("vector_store", VECTOR_STORE_FNAME),
                                  LoadCall("doc_store", DOC_STORE_FNAME)>>
                    /\ IF ~HasFile(disk, DOC_STORE_FNAME)
                       THEN /\ status' = "StoreError"
                            /\ UNCHANGED doc_store
                       ELSE /\ status' = "ok"
                            /\ doc_store' = ReadFile(disk, DOC_STORE_FNAME)

\* ------------------------------------------- ktem BaseApp and BasePage
NumPages == 3
Pages == 1..NumPages
\* parent[p] is the object holding page p as an attribute: the app (0) or a
\* page created before it; the page numbers follow the __dict__ order.
TheApp == 0
PageTrees == {f \in [Pages -> 0..NumPages] : \A p \in Pages : f[p] < p}
\* public_events of a page class, and the events its
\* on_subscribe_public_events subscribes to; "onX" is in no public_events.
PublicEventLists == {<<>>, <<"onA">>, <<"onB">>}
SubscribeLists == {<<>>, <<"onA">>, <<"onX">>}

NoEvents == <<>>
NoApp ==
    [parent |-> <<>>, public_events |-> <<>>, subscribes |-> <<>>,
     _events |-> NoEvents, todo |-> <<>>, log |-> <<>>, status |-> "none"]
\* BaseApp.__init__: self._events = {}
ConstructedApp(parent, public_events, subscribes) ==
    [parent |-> parent, public_events |-> public_events, subscribes |-> subscribes,
     _events |-> NoEvents, todo |-> <<>>, log |-> <<>>, status |-> "constructed"]

\* for value in self.__dict__.values(): if isinstance(value, BasePage)
RECURSIVE InDictOrder(_)
InDictOrder(S) ==
    IF S = {} THEN <<>>
    ELSE LET m == CHOOSE x \in S : \A y \in S : x <= y
         IN <<m>> \o InDictOrder(S \ {m})
PageValues(parent, holder) == InDictOrder({p \in Pages : parent[p] = holder})

\* A page method does its own part, then calls the same method of its pages.
RECURSIVE Recurse(_, _)
Recurse(parent, pages) ==
    IF pages = <<>> THEN <<>>
    ELSE <<Head(pages)>> \o Recurse(parent, PageValues(parent, Head(pages)))
                         \o Recurse(parent, Tail(pages))
PageOrder(parent) == Recurse(parent, PageValues(parent, TheApp))

Phases ==
    <<"declare_public_events", "subscribe_public_events", "register_events",
      "on_app_created">>
PhaseCalls(phase, order) ==
    [k \in 1..Len(order) |-> [phase |-> phase, page |-> order[k]]]

\* make gone wrong: one loop that runs the four methods on each page in turn.
MakeLoopPerPage(parent) ==
    LET order == PageOrder(parent)
    IN [k \in 1..(4 * Len(order)) |->
           [phase |-> Phases[((k - 1) % 4) + 1], page |-> order[((k - 1) \div 4) + 1]]]

\* make: four loops over the app's pages, one per method.
MakeLoops(parent) ==
    LET order == PageOrder(parent)
    IN PhaseCalls(Phases[1], order) \o PhaseCalls(Phases[2], order)
       \o PhaseCalls(Phases[3], order) \o PhaseCalls(Phases[4], order)

\* for event in self.public_events: self._app.declare_event(event)
RECURSIVE DeclareEvents(_, _)
DeclareEvents(events, names) ==
    IF names = <<>> THEN [_events |-> events, done |-> <<>>, raised |-> FALSE]
    ELSE IF Head(names) \in DOMAIN events
    THEN [_events |-> events, done |-> <<>>, raised |-> TRUE]
    ELSE LET rest == DeclareEvents((Head(names) :> <<>>) @@ events, Tail(names))
         IN [rest EXCEPT !.done = <<Head(names)>> \o @]

\* on_subscribe_public_events: self._app.subscribe_event(name, definition)
RECURSIVE SubscribeEvents(_, _, _)
SubscribeEvents(events, names, page) ==
    IF names = <<>> THEN [_events |-> events, done |-> <<>>, raised |-> FALSE]
    ELSE IF Head(names) \notin DOMAIN events
    THEN [_events |-> events, done |-> <<>>, raised |-> TRUE]
    ELSE LET rest == SubscribeEvents(
                 [events EXCEPT ![Head(names)] = Append(@, page)], Tail(names), page)
         IN [rest EXCEPT !.done = <<Head(names)>> \o @]

LogEntry(call, page, name) == [call |-> call, page |-> page, name |-> name]
EventEntries(call, page, names) ==
    [k \in 1..Len(names) |-> LogEntry(call, page, names[k])]

\* The page method make is about to call.
NextCall(phase) ==
    /\ app.status = "making"
    /\ app.todo # <<>>
    /\ Head(app.todo).phase = phase

\* What one page method leaves: the events, the log, and the exception that
\* ends make.
AfterCall(phase, page, r, call, exception) ==
    [app EXCEPT !._events = r._events,
                !.log = @ \o <<LogEntry(phase, page, "")>> \o EventEntries(call, page, r.done),
                !.todo = IF r.raised THEN <<>> ELSE Tail(@),
                !.status = IF r.raised THEN exception ELSE @]

NoEventCalls == [_events |-> app._events, done |-> <<>>, raised |-> FALSE]

Init ==
    /\ has_doc_store \in BOOLEAN
    /\ vector_store = {}
    /\ doc_store = {}
    /\ op = "idle"
    /\ args = <<>>
    /\ status = "ok"
    /\ result = <<>>
    /\ trace = <<>>
    /\ disk = {}
    /\ app = NoApp

\* Calls are synchronous and made one at a time: a call starts when the last
\* one's outcome has been taken.
Index ==
    \E text \in IndexInputs, fault \in IndexFaults :
        /\ op = "idle"
        /\ FaultApplies(fault)
        /\ VectorIndexingRun(text, fault)
        /\ UNCHANGED <<disk, app>>

IndexBatch ==
    \E text \in BatchInputs, fault \in IndexFaults :
        /\ op = "idle"
        /\ FaultApplies(fault)
        /\ RunBatchDocument(text, fault)
        /\ UNCHANGED <<disk, app>>

\* A retrieval pipeline is built per use (to_retrieval_pipeline(**kwargs)) on the
\* same stores; self.top_k is read only when top_k is None, and the store's
\* treatment of a missing id shows only when an id is missing.
Retrieve ==
    \E text \in Texts, top_k \in TopKArgs, self_top_k \in 0..MaxTopK :
        /\ op = "idle"
        /\ top_k # NoneValue => self_top_k = DefaultTopK
        /\ \E hits \in {VectorStoreQuery(vector_store, EmbedText(text),
                                         EffectiveTopK(top_k, self_top_k))} :
           \E on_missing \in IF has_doc_store /\ ~DocStoreHas(doc_store, hits.ids)
                             THEN OnMissing ELSE {"skip"} :
           \E rerankers \in RerankerLists :
               /\ VectorRetrievalRun(text, top_k, self_top_k, rerankers, on_missing, hits)
               /\ UNCHANGED <<disk, app>>

Rerank ==
    \E r \in Rerankers, documents \in RerankInputs, query \in Texts :
        /\ op = "idle"
        /\ RerankRun(r, documents, query)
        /\ UNCHANGED <<disk, app>>

\* The caller takes the outcome (the returned list or the exception); what the
\* call left in the stores stays.
Return ==
    /\ op # "idle"
    /\ op' = "idle"
    /\ args' = <<>>
    /\ status' = "ok"
    /\ result' = <<>>
    /\ trace' = <<>>
    /\ UNCHANGED <<has_doc_store, vector_store, doc_store, disk, app>>

Next == Index \/ IndexBatch \/ Retrieve \/ Rerank \/ Return

Save == op = "idle" /\ PipelineSave /\ UNCHANGED app

Load == op = "idle" /\ PipelineLoad /\ UNCHANGED app

\* Indexing with persistence: index calls, save and load.
NextPersist == Index \/ IndexBatch \/ Save \/ Load \/ Return

Spec == Init /\ [][Next]_vars

SpecPersist == Init /\ [][NextPersist]_vars

InitApp ==
    /\ has_doc_store = FALSE
    /\ vector_store = {}
    /\ doc_store = {}
    /\ op = "idle"
    /\ args = <<>>
    /\ status = "ok"
    /\ result = <<>>
    /\ trace = <<>>
    /\ disk = {}
    /\ \E parent \in PageTrees :
       \E public_events \in [Pages -> PublicEventLists] :
       \E subscribes \in [Pages -> SubscribeLists] :
           app = ConstructedApp(parent, public_events, subscribes)

\* make, up to its first loop
Make ==
    /\ app.status = "constructed"
    /\ app' = [app EXCEPT !.status = "making", !.todo = MakeLoops(app.parent)]
    /\ UNCHANGED pipeline

DeclarePublicEvents ==
    /\ NextCall("declare_public_events")
    /\ \E page \in {Head(app.todo).page} :
       \E r \in {DeclareEvents(app._events, app.public_events[page])} :
           app' = AfterCall("declare_public_events", page, r, "declare_event",
                            "HookAlreadyDeclared")
    /\ UNCHANGED pipeline

SubscribePublicEvents ==
    /\ NextCall("subscribe_public_events")
    /\ \E page \in {Head(app.todo).page} :
       \E r \in {SubscribeEvents(app._events, app.subscribes[page], page)} :
           app' = AfterCall("subscribe_public_events", page, r, "subscribe_event",
                            "HookNotDeclared")
    /\ UNCHANGED pipeline

RegisterEvents ==
    /\ NextCall("register_events")
    /\ app' = AfterCall("register_events", Head(app.todo).page, NoEventCalls, "", "")
    /\ UNCHANGED pipeline

OnAppCreated ==
    /\ NextCall("on_app_created")
    /\ app' = AfterCall("on_app_created", Head(app.todo).page, NoEventCalls, "", "")
    /\ UNCHANGED pipeline

\* make, after its last loop: return demo
MakeReturn ==
    /\ app.status = "making"
    /\ app.todo = <<>>
    /\ app' = [app EXCEPT !.status = "ok"]
    /\ UNCHANGED pipeline

NextApp ==
    \/ Make
    \/ DeclarePublicEvents
    \/ SubscribePublicEvents
    \/ RegisterEvents
    \/ OnAppCreated
    \/ MakeReturn

SpecApp == InitApp /\ [][NextApp]_vars

\* ================================================================== claims
IsIndexCall == op \in {"VectorIndexing.run", "run_batch_document"}
IsRetrieveCall == op = "VectorRetrieval.run"
Calls(name) == SelectSeq(trace, LAMBDA c : c.call = name)

\* C1: an index call on a non-empty input of length n hands the vector store
\* exactly n embeddings and n ids, the ids being the input Documents' ids (a
\* fresh uuid for a str) in input order; the document store, when set, is
\* handed the same n documents under the same ids; a call that returns has
\* made both writes, so both stores hold the call's ids.
C1_IndexWritesMatch ==
    (IsIndexCall /\ Len(args.text.items) > 0) =>
        LET items == args.text.items
            n == Len(items)
            vadd == Calls("vector_store.add")
            dadd == Calls("doc_store.add")
        IN  /\ \A c \in DOMAIN vadd :
                /\ Len(vadd[c].embeddings) = n
                /\ Len(vadd[c].ids) = n
                /\ \A i \in 1..n :
                    /\ items[i].kind = "Document" => vadd[c].ids[i] = items[i].id_
                    /\ items[i].kind = "str" => vadd[c].ids[i] \in Uuids
                    /\ vadd[c].embeddings[i] = EmbedText(items[i].text)
            /\ \A c \in DOMAIN dadd :
                /\ Len(vadd) = 1
                /\ Len(dadd[c].docs) = n
                /\ \A i \in 1..n :
                    /\ dadd[c].docs[i].id_ = vadd[1].ids[i]
                    /\ dadd[c].docs[i].text = items[i].text
            /\ status = "ok" =>
                /\ Len(vadd) = 1
                /\ Len(dadd) = IF has_doc_store THEN 1 ELSE 0
                /\ Range(vadd[1].ids) \subseteq StoreIds(vector_store)
                /\ has_doc_store =>
                    /\ Range(vadd[1].ids) \subseteq StoreIds(doc_store)
                    /\ Range(vadd[1].ids) = {d.id_ : d \in Range(dadd[1].docs)}

\* C1 witness: a returned index call of a Document and a str, in that order,
\* on a pipeline with a document store.
C1_Witness ==
    /\ IsIndexCall /\ status = "ok" /\ has_doc_store
    /\ Len(args.text.items) = MaxBatch
    /\ args.text.items[1].kind = "Document"
    /\ args.text.items[MaxBatch].kind = "str"

StoresConsistent == StoreIds(vector_store) \subseteq StoreIds(doc_store)

C3_ScorePairedWithOwnId ==
    (IsRetrieveCall /\ status = "ok" /\ args.rerankers = <<>>) =>
        LET hits == Calls("vector_store.query")[1].returned
        IN  \A i \in DOMAIN result :
                /\ result[i].id_ = hits.ids[i]
                /\ result[i].score = hits.scores[i]

\* C4: retrieve on a pipeline without a document store raises before any
\* capability is called, and leaves both stores as they were.
C4_NoDocStoreFailsFirst ==
    [][(IsRetrieveCall' /\ ~has_doc_store') =>
          /\ status' = "ValueError"
          /\ trace' = <<>>
          /\ UNCHANGED <<vector_store, doc_store>>]_vars

\* C4 witness: such a call, with rerankers configured and a non-empty vector store.
C4_Witness ==
    /\ IsRetrieveCall /\ ~has_doc_store /\ status = "ValueError"
    /\ vector_store # {}
    /\ Len(args.rerankers) > 0

\* C5 as stated: a retrieve call whose effective top_k is not positive raises
\* InvalidArgument and does not query the vector store.
C5_NonPositiveTopKRejected ==
    (IsRetrieveCall /\ has_doc_store
        /\ EffectiveTopK(args.top_k, args.self_top_k) <= 0) =>
        /\ status = "InvalidArgument"
        /\ Calls("vector_store.query") = <<>>

\* C6 as stated: a retrieve call (top_k positive) against an empty vector
\* store returns an empty list and makes no document-store call.
C6_EmptyStoreNoDocStoreCall ==
    (IsRetrieveCall /\ has_doc_store /\ vector_store = {}
        /\ EffectiveTopK(args.top_k, args.self_top_k) > 0) =>
        /\ status = "ok"
        /\ result = <<>>
        /\ Calls("doc_store.get") = <<>>

\* C7 as stated: during a retrieve call no reranker is invoked with an empty
\* candidate list.
C7_NoRerankerOnEmptyList ==
    IsRetrieveCall =>
        \A c \in DOMAIN Calls("reranker") : Calls("reranker")[c].documents # <<>>

\* The hydrated vector-store hits of the last retrieve call.
InitialResult ==
    ZipResult(Calls("doc_store.get")[1].returned,
              Calls("vector_store.query")[1].returned.scores)

\* C8: a retrieve call that returns has called each configured reranker once,
\* in configured order, with the original query text and with the previous
\* reranker's output (the hydrated hits for the first) as documents; what
\* retrieve returns is the last reranker's output.
C8_RerankersChained ==
    (IsRetrieveCall /\ status = "ok" /\ Len(args.rerankers) > 0) =>
        LET rc == Calls("reranker")
            n == Len(args.rerankers)
        IN  /\ Len(rc) = n
            /\ \A k \in 1..n :
                /\ rc[k].reranker = args.rerankers[k]
                /\ rc[k].query = args.text
                /\ rc[k].documents = IF k = 1 THEN InitialResult ELSE rc[k - 1].returned
                /\ rc[k].returned =
                     CohereRerankingRun(args.rerankers[k], rc[k].documents, args.text).out
            /\ result = rc[n].returned

\* C8 witness: two different rerankers applied to two hydrated hits.
C8_Witness ==
    /\ IsRetrieveCall /\ status = "ok"
    /\ Len(args.rerankers) = 2
    /\ args.rerankers[1] # args.rerankers[2]
    /\ Len(InitialResult) = 2
    /\ result # <<>>

\* C9 as stated: CohereReranking.run on an empty list returns an empty list
\* and makes no call to the cohere library (neither client nor rerank).
C9_EmptyRerankNoExternalCall ==
    (op = "CohereReranking.run" /\ args.documents = <<>>) =>
        /\ result = <<>>
        /\ trace = <<>>

\* C10: VectorIndexing.run on an input holding an item that is neither str nor
\* Document, at any position, raises ValueError without calling the embedding
\* capability and without changing either store.
C10_InvalidItemRejected ==
    [][(op' = "VectorIndexing.run"
          /\ \E i \in DOMAIN args'.text.items : args'.text.items[i].kind = "other") =>
          /\ status' = "ValueError"
          /\ trace' = <<>>
          /\ UNCHANGED <<vector_store, doc_store>>]_vars

\* C10 witness: the invalid item comes second, after a valid str, and the
\* stores are not empty.
C10_Witness ==
    /\ op = "VectorIndexing.run" /\ status = "ValueError"
    /\ Len(args.text.items) = 2
    /\ args.text.items[1].kind = "str"
    /\ args.text.items[2].kind = "other"
    /\ vector_store # {}
    /\ doc_store # {}

\* What C11 asks of one rerank(documents, query) of reranker r that returned out.
RerankOutputOk(r, documents, query, out) ==
    /\ Len(out) <= RerankerTopK(r)
    /\ \A k \in DOMAIN out :
        \E i \in DOMAIN documents :
            /\ out[k].id_ = documents[i].id_
            /\ out[k].text = documents[i].text
            /\ out[k].score = documents[i].score
            /\ out[k].relevance_score = <<CohereRelevance(r, query, documents[i].text)>>
    /\ \A k \in 1..(Len(out) - 1) :
        out[k].relevance_score[1] >= out[k + 1].relevance_score[1]

\* C11: for a non-empty input, what a reranker returns is no longer than its
\* top_k, is in descending order of relevance score, and holds only input
\* documents, each carrying its own relevance for the query; for a direct call
\* of CohereReranking.run and for every reranker call of a retrieve call.
C11_RerankTruncatedAndOrdered ==
    /\ (op = "CohereReranking.run" /\ args.documents # <<>>) =>
            RerankOutputOk(args.reranker, args.documents, args.query, result)
    /\ (IsRetrieveCall /\ status = "ok") =>
            \A c \in DOMAIN Calls("reranker") :
                LET rc == Calls("reranker")[c]
                IN  rc.documents # <<>> =>
                        RerankOutputOk(rc.reranker, rc.documents, rc.query, rc.returned)

\* C11 witness: a reranker with top_k 2 returned two documents, the second
\* input document first.
C11_Witness ==
    /\ op = "CohereReranking.run"
    /\ Len(args.documents) = 2
    /\ Len(result) = 2
    /\ result[1].id_ = args.documents[2].id_
    /\ result[1].id_ # result[2].id_

\* C12 as stated: with or without a document store, save succeeds and leaves
\* both stores' contents under 'vectorstore' and 'docstore', and a load that
\* follows a save succeeds and leaves both stores with the saved contents
\* (so every query gives the saved stores' results).
C12_SaveLoadRoundTrip ==
    /\ op = "save" =>
        /\ status = "ok"
        /\ trace = <<SaveCall("vector_store", "vectorstore"),
                     SaveCall("doc_store", "docstore")>>
        /\ HasFile(disk, "vectorstore") /\ ReadFile(disk, "vectorstore") = vector_store
        /\ HasFile(disk, "docstore") /\ ReadFile(disk, "docstore") = doc_store
    /\ (op = "load" /\ HasFile(disk, "vectorstore")) =>
        /\ status = "ok"
        /\ trace = <<LoadCall("vector_store", "vectorstore"),
                     LoadCall("doc_store", "docstore")>>
        /\ vector_store = ReadFile(disk, "vectorstore")
        /\ HasFile(disk, "docstore") /\ doc_store = ReadFile(disk, "docstore")

PhaseOf(entry) ==
    CASE entry.call \in {"declare_public_events", "declare_event"} -> 1
      [] entry.call \in {"subscribe_public_events", "subscribe_event"} -> 2
      [] entry.call = "register_events" -> 3
      [] entry.call = "on_app_created" -> 4

DeclaredSomewhere(name) ==
    \E q \in Pages : name \in Range(app.public_events[q])

AllSubscribedDeclared ==
    \A p \in Pages : \A name \in Range(app.subscribes[p]) : DeclaredSomewhere(name)

DistinctEventNames ==
    /\ \A p, q \in Pages :
        p # q => Range(app.public_events[p]) \cap Range(app.public_events[q]) = {}
    /\ \A p \in Pages :
        Cardinality(Range(app.public_events[p])) = Len(app.public_events[p])

\* C13: in make every declaration comes before any page's
\* subscribe_public_events, every subscription before any page's
\* register_events, and on_app_created last; a finished make has run each of
\* the four methods once on every page of the tree; subscribing only to events
\* of some page's public_events never gives HookNotDeclared; distinct event
\* names never give HookAlreadyDeclared.
C13_LifeCycleOrder ==
    /\ \A i, j \in DOMAIN app.log :
        i < j => PhaseOf(app.log[i]) <= PhaseOf(app.log[j])
    /\ app.status = "ok" =>
        \A p \in Pages : \A k \in DOMAIN Phases :
            Cardinality({i \in DOMAIN app.log :
                app.log[i].call = Phases[k] /\ app.log[i].page = p}) = 1
    /\ AllSubscribedDeclared => app.status # "HookNotDeclared"
    /\ DistinctEventNames => app.status # "HookAlreadyDeclared"

\* make has finished on a tree with a nested page, where a page subscribed to
\* an event that a page visited after it declares.
C13_Witness ==
    /\ app.status = "ok"
    /\ \E i, j \in DOMAIN app.log :
        /\ app.log[i].call = "subscribe_event"
        /\ app.log[j].call = "declare_event"
        /\ app.log[j].name = app.log[i].name
        /\ \E a, b \in DOMAIN PageOrder(app.parent) :
            /\ a < b
            /\ PageOrder(app.parent)[a] = app.log[i].page
            /\ PageOrder(app.parent)[b] = app.log[j].page
            /\ app.parent[app.log[j].page] # TheApp

====
